---- MODULE Spec2Model ----
(***************************************************************************)
(* TechHive User Management API: the in-memory user store (UserService),   *)
(* the controllers that sit on it, the middleware chain of the wired       *)
(* routes, login, the token middleware of tokenValidation, the validation  *)
(* middleware, and UserService calls that are in flight together.          *)
(*                                                                         *)
(* Strings the code inspects character by character (names, emails, search *)
(* terms, query parameters) are sequences of one-character strings, so     *)
(* that toLowerCase, trim, RegExp.test, includes and parseInt are computed *)
(* and not assumed.  Roles, ids and error codes are only ever compared for *)
(* equality and are plain strings.  Timestamps are integers that keep the  *)
(* order of the Date values they stand for.                                *)
(***************************************************************************)
EXTENDS Integers, Sequences, FiniteSets, TLC

VARIABLES
    users,      \* UserService.users, the array that is the store
    now,        \* the reading a `new Date()` evaluated now would give
    uuidCount,  \* how many identifiers uuidv4() has handed out
    heldIds,    \* every identifier a stored user has had so far
    ops,        \* number of calls made so far (bounds the run)
    last,       \* the last UserService call: arguments, outcome, store before it
    http,       \* the last HTTP exchange on the wired routes
    tokenBlacklist, \* tokenValidation's set of revoked tokens
    auth,       \* the last call of a middleware or of login, and its outcome
    validated,  \* the last call of a validation middleware, and its outcome
    calls       \* the UserService calls in flight together, in the order they began

vars == <<users, now, uuidCount, heldIds, ops, last, http, tokenBlacklist, auth, validated,
          calls>>

----------------------------------------------------------------------------
(* Bounds of the model *)

\* calls of the store's methods per run
MaxOps == 2

\* clock ticks per run
MaxTicks == 1

----------------------------------------------------------------------------
(* Strings *)

Whitespace == {" ", "\t"}

UpperChars == <<"A","B","C","D","E","F","G","H","I","J","K","L","M",
                "N","O","P","Q","R","S","T","U","V","W","X","Y","Z">>
LowerChars == <<"a","b","c","d","e","f","g","h","i","j","k","l","m",
                "n","o","p","q","r","s","t","u","v","w","x","y","z">>

LowerOf == [c \in {UpperChars[i] : i \in DOMAIN UpperChars} |->
               LowerChars[CHOOSE i \in DOMAIN UpperChars : UpperChars[i] = c]]

LowerChar(c) == IF c \in DOMAIN LowerOf THEN LowerOf[c] ELSE c

\* String.prototype.toLowerCase
ToLowerCase(s) == [i \in 1..Len(s) |-> LowerChar(s[i])]

\* String.prototype.trim
Trim(s) ==
    IF \A i \in 1..Len(s) : s[i] \in Whitespace
    THEN << >>
    ELSE LET lo == CHOOSE i \in 1..Len(s) :
                       s[i] \notin Whitespace /\ \A j \in 1..(i - 1) : s[j] \in Whitespace
             hi == CHOOSE i \in 1..Len(s) :
                       s[i] \notin Whitespace /\ \A j \in (i + 1)..Len(s) : s[j] \in Whitespace
         IN  SubSeq(s, lo, hi)

\* String.prototype.includes
Includes(hay, needle) ==
    \E k \in 0..Len(hay) :
        /\ k + Len(needle) <= Len(hay)
        /\ \A i \in 1..Len(needle) : hay[k + i] = needle[i]

\* a character of the class [^\s@]
PlainChar(c) == c \notin Whitespace /\ c # "@"

\* UserValidation.email.pattern.test(s), the pattern /^[^\s@]+@[^\s@]+\.[^\s@]+$/
EmailPattern(s) ==
    \E a \in 1..Len(s) : \E d \in 1..Len(s) :
        /\ 1 < a /\ a + 1 < d /\ d < Len(s)
        /\ s[a] = "@" /\ s[d] = "."
        /\ \A i \in 1..Len(s) : i # a => PlainChar(s[i])

----------------------------------------------------------------------------
(* The seed data of the store *)

\* Order-preserving stand-ins for the seed timestamps: the day of January 2025
Date(day) == day

SeedUsers == <<
    [id |-> "1",
     name |-> <<"J","o","h","n"," ","D","o","e">>,
     email |-> <<"j","o","h","n","@","e","x","a","m","p","l","e",".","c","o","m">>,
     age |-> 30, role |-> "user", isActive |-> TRUE,
     createdAt |-> Date(1), updatedAt |-> Date(1)],
    [id |-> "2",
     name |-> <<"J","a","n","e"," ","S","m","i","t","h">>,
     email |-> <<"j","a","n","e","@","e","x","a","m","p","l","e",".","c","o","m">>,
     age |-> 28, role |-> "manager", isActive |-> TRUE,
     createdAt |-> Date(2), updatedAt |-> Date(2)],
    [id |-> "3",
     name |-> <<"A","d","m","i","n"," ","U","s","e","r">>,
     email |-> <<"a","d","m","i","n","@","t","e","c","h","h","i","v","e",".","c","o","m">>,
     age |-> 35, role |-> "admin", isActive |-> TRUE,
     createdAt |-> Date(1), updatedAt |-> Date(1)],
    [id |-> "4",
     name |-> <<"M","a","n","a","g","e","r"," ","T","e","s","t">>,
     email |-> <<"m","a","n","a","g","e","r","@","t","e","c","h","h","i","v","e",".","c","o","m">>,
     age |-> 32, role |-> "manager", isActive |-> FALSE,
     createdAt |-> Date(3), updatedAt |-> Date(15)],
    [id |-> "5",
     name |-> <<"T","e","s","t"," ","U","s","e","r">>,
     email |-> <<"t","e","s","t","@","e","x","a","m","p","l","e",".","c","o","m">>,
     age |-> 25, role |-> "user", isActive |-> TRUE,
     createdAt |-> Date(10), updatedAt |-> Date(10)] >>

\* The process starts after the latest seed timestamp (January 2025 is past).
StartTime == Date(15) + 1

ClockEnd == StartTime + MaxTicks

----------------------------------------------------------------------------
(* Request payloads *)

\* A JSON body as createUser and updateUser read it: which of the fields are
\* present, and their values.
EmptyBody ==
    [hasName |-> FALSE, name |-> << >>, hasEmail |-> FALSE, email |-> << >>,
     hasAge |-> FALSE, age |-> 0, hasRole |-> FALSE, role |-> "",
     hasIsActive |-> FALSE, isActive |-> FALSE]

WithName(b, n)     == [b EXCEPT !.hasName = TRUE, !.name = n]
WithEmail(b, e)    == [b EXCEPT !.hasEmail = TRUE, !.email = e]
WithAge(b, a)      == [b EXCEPT !.hasAge = TRUE, !.age = a]
WithRole(b, r)     == [b EXCEPT !.hasRole = TRUE, !.role = r]
WithIsActive(b, f) == [b EXCEPT !.hasIsActive = TRUE, !.isActive = f]

\* A number as JavaScript has it: an integer or NaN
Num(v) == [nan |-> FALSE, val |-> v]
NaN    == [nan |-> TRUE, val |-> 0]

\* UserFilters
NoFilters ==
    [activeOnly |-> FALSE, hasRole |-> FALSE, role |-> "",
     hasMinAge |-> FALSE, minAge |-> NaN, hasMaxAge |-> FALSE, maxAge |-> NaN,
     hasSearch |-> FALSE, search |-> << >>]

----------------------------------------------------------------------------
(* UserService *)

\* uuidv4(): a value no earlier call returned, and never a seed identifier
Uuid(n) == "uuid-" \o ToString(n)

\* Array.prototype.findIndex(user => user.id === id); 0 stands for -1
FindIndex(us, id) ==
    IF \E i \in 1..Len(us) : us[i].id = id
    THEN CHOOSE i \in 1..Len(us) : us[i].id = id /\ \A j \in 1..(i - 1) : us[j].id # id
    ELSE 0

\* The three checks that open createUser; "none" when all pass
CreateValidationError(userData) ==
    IF \/ ~userData.hasName
       \/ Trim(userData.name) = << >>
       \/ Len(Trim(userData.name)) < 2
    THEN "Name is required and must be at least 2 characters"
    ELSE IF \/ ~userData.hasEmail
            \/ Trim(userData.email) = << >>
            \/ ~EmailPattern(Trim(userData.email))
    THEN "Valid email is required"
    ELSE IF \/ ~userData.hasAge
            \/ userData.age < 0
            \/ userData.age > 150
    THEN "Age must be between 0 and 150"
    ELSE "none"

\* A duplicate lookup that forgets to fold the case of the two addresses
ExistingUser_CaseSensitive(us, userData) ==
    \E i \in 1..Len(us) : us[i].email = userData.email

\* The duplicate-email lookup of createUser
ExistingUser(us, userData) ==
    \E i \in 1..Len(us) : ToLowerCase(us[i].email) = ToLowerCase(userData.email)

\* The record createUser builds; t1 and t2 are its two `new Date()` readings
NewUser(userData, id, t1, t2) ==
    [id |-> id,
     name |-> Trim(userData.name),
     email |-> Trim(ToLowerCase(userData.email)),
     age |-> userData.age,
     role |-> IF userData.hasRole /\ userData.role # "" THEN userData.role ELSE "user",
     isActive |-> TRUE,
     createdAt |-> t1,
     updatedAt |-> t2]

\* An update that falls back to the default role, as createUser does, when the
\* payload names none
UpdatedUser_DefaultRole(currentUser, userData, t) ==
    [currentUser EXCEPT
        !.name = IF userData.hasName THEN Trim(userData.name) ELSE @,
        !.email = IF userData.hasEmail THEN Trim(ToLowerCase(userData.email)) ELSE @,
        !.age = IF userData.hasAge THEN userData.age ELSE @,
        !.role = IF userData.hasRole THEN userData.role ELSE "user",
        !.isActive = IF userData.hasIsActive THEN userData.isActive ELSE @,
        !.updatedAt = t]

\* The record updateUser builds from the stored one
UpdatedUser(currentUser, userData, t) ==
    [currentUser EXCEPT
        !.name = IF userData.hasName THEN Trim(userData.name) ELSE @,
        !.email = IF userData.hasEmail THEN Trim(ToLowerCase(userData.email)) ELSE @,
        !.age = IF userData.hasAge THEN userData.age ELSE @,
        !.role = IF userData.hasRole THEN userData.role ELSE @,
        !.isActive = IF userData.hasIsActive THEN userData.isActive ELSE @,
        !.updatedAt = t]

\* Array.prototype.splice(userIndex, 1)
Splice(us, i) == SubSeq(us, 1, i - 1) \o SubSeq(us, i + 1, Len(us))

\* The run of successful toggleUserStatus calls on one user that a call extends
\* or ends: the user, the length of the run, the record before the run began
NoStreak == [id |-> "", count |-> 0, original |-> << >>]

Streak(op, id, status) ==
    IF op = "toggleUserStatus" /\ status = 0
    THEN IF last.streak.id = id
         THEN [last.streak EXCEPT !.count = @ + 1]
         ELSE [id |-> id, count |-> 1,
               original |-> <<users[CHOOSE i \in 1..Len(users) : users[i].id = id]>>]
    ELSE NoStreak

\* What `last` records of a call: its arguments, the clock reading when it began,
\* its outcome (status 0: it returned; otherwise the ApiError it threw), the
\* store and the identifiers held before it, and the value it returned
Call(op, id, body, term, filters, status, code, result) ==
    [op |-> op, id |-> id, body |-> body, term |-> term, filters |-> filters,
     at |-> now, status |-> status, code |-> code, before |-> users,
     held |-> heldIds, result |-> result, streak |-> Streak(op, id, status)]

Throws(op, id, body, status, code) ==
    /\ last' = Call(op, id, body, << >>, NoFilters, status, code, << >>)
    /\ UNCHANGED <<users, now, uuidCount, heldIds>>

Min(a, b) == IF a <= b THEN a ELSE b

createUser(userData) ==
    IF CreateValidationError(userData) # "none"
    THEN Throws("createUser", "", userData, 400, "VALIDATION_ERROR")
    ELSE IF ExistingUser(users, userData)
    THEN Throws("createUser", "", userData, 409, "CONFLICT")
    ELSE \E t2 \in now..Min(now + 1, ClockEnd) :
            LET newUser == NewUser(userData, Uuid(uuidCount + 1), now, t2)
            IN  /\ users' = Append(users, newUser)
                /\ uuidCount' = uuidCount + 1
                /\ heldIds' = heldIds \cup {newUser.id}
                /\ now' = t2
                /\ last' = Call("createUser", newUser.id, userData, << >>,
                                NoFilters, 0, "OK", <<newUser>>)

updateUserAs(op, id, userData) ==
    LET userIndex == FindIndex(users, id)
    IN  IF userIndex = 0
        THEN Throws(op, id, userData, 404, "NOT_FOUND")
        ELSE LET updatedUser == UpdatedUser(users[userIndex], userData, now)
             IN  /\ users' = [users EXCEPT ![userIndex] = updatedUser]
                 /\ last' = Call(op, id, userData, << >>, NoFilters, 0, "OK",
                                 <<updatedUser>>)
                 /\ UNCHANGED <<now, uuidCount, heldIds>>

updateUser(id, userData) == updateUserAs("updateUser", id, userData)

\* A deleteUser for which a missing id is nothing to do
deleteUser_MissingIsDone(id) ==
    LET userIndex == FindIndex(users, id)
    IN  IF userIndex = 0
        THEN /\ last' = Call("deleteUser", id, EmptyBody, << >>, NoFilters, 0, "OK", << >>)
             /\ UNCHANGED <<users, now, uuidCount, heldIds>>
        ELSE /\ users' = Splice(users, userIndex)
             /\ last' = Call("deleteUser", id, EmptyBody, << >>, NoFilters, 0, "OK", << >>)
             /\ UNCHANGED <<now, uuidCount, heldIds>>

\* A deleteUser that marks the record inactive and keeps it
deleteUser_SoftDelete(id) ==
    LET userIndex == FindIndex(users, id)
    IN  IF userIndex = 0
        THEN Throws("deleteUser", id, EmptyBody, 404, "NOT_FOUND")
        ELSE /\ users' = [users EXCEPT ![userIndex].isActive = FALSE]
             /\ last' = Call("deleteUser", id, EmptyBody, << >>, NoFilters, 0, "OK", << >>)
             /\ UNCHANGED <<now, uuidCount, heldIds>>

deleteUser(id) ==
    LET userIndex == FindIndex(users, id)
    IN  IF userIndex = 0
        THEN Throws("deleteUser", id, EmptyBody, 404, "NOT_FOUND")
        ELSE /\ users' = Splice(users, userIndex)
             /\ last' = Call("deleteUser", id, EmptyBody, << >>, NoFilters, 0, "OK", << >>)
             /\ UNCHANGED <<now, uuidCount, heldIds>>

getUserById(id) ==
    LET userIndex == FindIndex(users, id)
    IN  IF userIndex = 0
        THEN Throws("getUserById", id, EmptyBody, 404, "NOT_FOUND")
        ELSE /\ last' = Call("getUserById", id, EmptyBody, << >>, NoFilters, 0, "OK",
                             <<users[userIndex]>>)
             /\ UNCHANGED <<users, now, uuidCount, heldIds>>

\* A toggle that deactivates whatever the stored flag is
toggleUserStatus_Deactivates(id) ==
    LET userIndex == FindIndex(users, id)
    IN  IF userIndex = 0
        THEN Throws("toggleUserStatus", id, EmptyBody, 404, "NOT_FOUND")
        ELSE updateUserAs("toggleUserStatus", id, WithIsActive(EmptyBody, FALSE))

\* getUserById, then updateUser with the negated flag, run without interruption
toggleUserStatus(id) ==
    LET userIndex == FindIndex(users, id)
    IN  IF userIndex = 0
        THEN Throws("toggleUserStatus", id, EmptyBody, 404, "NOT_FOUND")
        ELSE updateUserAs("toggleUserStatus", id,
                          WithIsActive(EmptyBody, ~users[userIndex].isActive))

\* user.age >= filters.minAge and user.age <= filters.maxAge; false against NaN
AgeAtLeast(age, n) == ~n.nan /\ age >= n.val
AgeAtMost(age, n)  == ~n.nan /\ age <= n.val

\* A search that lower-cases the stored fields but not the term
SearchMatches_TermAsTyped(user, search) ==
    \/ Includes(ToLowerCase(user.name), search)
    \/ Includes(ToLowerCase(user.email), search)

\* The search predicate of getAllUsers
SearchMatches(user, search) ==
    LET searchTerm == ToLowerCase(search)
    IN  \/ Includes(ToLowerCase(user.name), searchTerm)
        \/ Includes(ToLowerCase(user.email), searchTerm)

\* A getAllUsers whose search looks at names only
FilteredUsers_SearchNamesOnly(us, filters) ==
    LET KeepActive(u) == u.isActive
        KeepRole(u)   == u.role = filters.role
        KeepMin(u)    == AgeAtLeast(u.age, filters.minAge)
        KeepMax(u)    == AgeAtMost(u.age, filters.maxAge)
        KeepSearch(u) == Includes(ToLowerCase(u.name), ToLowerCase(filters.search))
        f1 == IF filters.activeOnly THEN SelectSeq(us, KeepActive) ELSE us
        f2 == IF filters.hasRole /\ filters.role # "" THEN SelectSeq(f1, KeepRole) ELSE f1
        f3 == IF filters.hasMinAge THEN SelectSeq(f2, KeepMin) ELSE f2
        f4 == IF filters.hasMaxAge THEN SelectSeq(f3, KeepMax) ELSE f3
    IN  IF filters.hasSearch /\ filters.search # << >> THEN SelectSeq(f4, KeepSearch) ELSE f4

\* The array getAllUsers returns: a copy of the store, narrowed filter by filter
FilteredUsers(us, filters) ==
    LET KeepActive(u) == u.isActive
        KeepRole(u)   == u.role = filters.role
        KeepMin(u)    == AgeAtLeast(u.age, filters.minAge)
        KeepMax(u)    == AgeAtMost(u.age, filters.maxAge)
        KeepSearch(u) == SearchMatches(u, filters.search)
        f1 == IF filters.activeOnly THEN SelectSeq(us, KeepActive) ELSE us
        f2 == IF filters.hasRole /\ filters.role # "" THEN SelectSeq(f1, KeepRole) ELSE f1
        f3 == IF filters.hasMinAge THEN SelectSeq(f2, KeepMin) ELSE f2
        f4 == IF filters.hasMaxAge THEN SelectSeq(f3, KeepMax) ELSE f3
    IN  IF filters.hasSearch /\ filters.search # << >> THEN SelectSeq(f4, KeepSearch) ELSE f4

\* The array searchUsers returns
SearchResult(us, searchTerm) ==
    IF searchTerm = << >> \/ Trim(searchTerm) = << >>
    THEN << >>
    ELSE FilteredUsers(us, [NoFilters EXCEPT !.hasSearch = TRUE, !.search = Trim(searchTerm)])

getAllUsers(filters) ==
    /\ last' = Call("getAllUsers", "", EmptyBody, << >>, filters, 0, "OK",
                    FilteredUsers(users, filters))
    /\ UNCHANGED <<users, now, uuidCount, heldIds>>

searchUsers(searchTerm) ==
    /\ last' = Call("searchUsers", "", EmptyBody, searchTerm, NoFilters, 0, "OK",
                    SearchResult(users, searchTerm))
    /\ UNCHANGED <<users, now, uuidCount, heldIds>>

\* this.users.reduce((sum, user) => sum + user.age, 0)
RECURSIVE SumAges(_)
SumAges(us) == IF us = << >> THEN 0 ELSE us[1].age + SumAges(Tail(us))

\* averageAge in hundredths: Math.round((sum / total) * 100), which rounds a
\* half upwards, and 0 for an empty store.  (The division by 100 that follows
\* in the code only moves the decimal point.)
AverageAge(us) ==
    IF Len(us) > 0 THEN (200 * SumAges(us) + Len(us)) \div (2 * Len(us)) ELSE 0

\* A count of roles that lists the three known roles whether present or not
UserStats_EveryRole(us) ==
    LET IsActive(u) == u.isActive
        total  == Len(us)
        active == Len(SelectSeq(us, IsActive))
    IN  [total |-> total, active |-> active, inactive |-> total - active,
         byRole |-> [r \in {"admin", "manager", "user"} \cup {us[i].role : i \in 1..Len(us)} |->
                        Cardinality({i \in 1..Len(us) : us[i].role = r})],
         averageAge |-> AverageAge(us)]

\* The UserStats getUserStats computes from the store; byRole has a key for
\* each role the reduce met
UserStats(us) ==
    LET IsActive(u) == u.isActive
        total  == Len(us)
        active == Len(SelectSeq(us, IsActive))
    IN  [total |-> total, active |-> active, inactive |-> total - active,
         byRole |-> [r \in {us[i].role : i \in 1..Len(us)} |->
                        Cardinality({i \in 1..Len(us) : us[i].role = r})],
         averageAge |-> AverageAge(us)]

getUserStats ==
    /\ last' = Call("getUserStats", "", EmptyBody, << >>, NoFilters, 0, "OK",
                    <<UserStats(users)>>)
    /\ UNCHANGED <<users, now, uuidCount, heldIds>>

----------------------------------------------------------------------------
(* Inputs *)

Str_Al        == <<"A","l">>
Str_A         == <<"A">>
Str_Bo        == <<" ","B","o"," ">>
Str_New       == <<"n","e","w","@","x",".","i","o">>
Str_NewUpper  == <<"N","e","w","@","X",".","i","o">>
Str_JohnUpper == <<"J","O","H","N","@","e","x","a","m","p","l","e",".","c","o","m">>
Str_JohnSpace == <<" ","j","o","h","n","@","e","x","a","m","p","l","e",".","c","o","m">>
Str_JaneUpper == <<"J","a","n","e","@","E","x","a","m","p","l","e",".","c","o","m">>
Str_Bad       == <<"b","a","d">>

Body(n, e, a) == WithAge(WithEmail(WithName(EmptyBody, n), e), a)

CreateBodies ==
    { Body(Str_Al, Str_New, 40),
      Body(Str_Bo, Str_NewUpper, 150),
      Body(Str_Al, Str_JohnUpper, 40),
      Body(Str_A, Str_JohnUpper, 40),
      Body(Str_Al, Str_JohnSpace, 0),
      Body(Str_Al, Str_Bad, 40),
      Body(Str_Al, Str_New, 151),
      WithRole(Body(Str_Al, Str_New, 0), "superuser"),
      WithRole(Body(Str_Al, Str_New, 40), ""),
      WithEmail(WithName(EmptyBody, Str_Al), Str_New),
      EmptyBody }

UpdateBodies ==
    { EmptyBody,
      WithName(EmptyBody, Str_Bo),
      WithEmail(EmptyBody, Str_JaneUpper),
      WithEmail(WithRole(EmptyBody, "admin"), Str_Bad),
      WithAge(EmptyBody, 200),
      WithAge(WithName(WithIsActive(EmptyBody, TRUE), Str_Al), 0),
      WithRole(EmptyBody, "superuser"),
      WithIsActive(EmptyBody, FALSE) }

Ids == {"1", "2", "nope", Uuid(1)}

SearchTerms ==
    { << >>,
      <<" "," ">>,
      <<"J","O","H","N">>,
      <<"d","o","e"," ">>,
      <<" ","s","m","i","t","h">>,
      <<"@","t","e","c","h">>,
      <<"n","e","w">>,
      <<"z","z">> }

FilterInputs ==
    { NoFilters,
      [NoFilters EXCEPT !.activeOnly = TRUE],
      [NoFilters EXCEPT !.hasRole = TRUE, !.role = "manager"],
      [NoFilters EXCEPT !.hasMinAge = TRUE, !.minAge = Num(30),
                        !.hasMaxAge = TRUE, !.maxAge = Num(20)],
      [NoFilters EXCEPT !.hasMinAge = TRUE, !.minAge = Num(28),
                        !.hasMaxAge = TRUE, !.maxAge = Num(32), !.activeOnly = TRUE],
      [NoFilters EXCEPT !.hasSearch = TRUE, !.search = <<"T","e","s","t">>],
      [NoFilters EXCEPT !.hasRole = TRUE, !.role = "user",
                        !.hasSearch = TRUE, !.search = <<"E","X","A","M","P","L","E">>],
      [NoFilters EXCEPT !.hasMinAge = TRUE, !.minAge = Num(30)],
      [NoFilters EXCEPT !.hasMaxAge = TRUE, !.maxAge = Num(40), !.activeOnly = TRUE,
                        !.hasRole = TRUE, !.role = "manager"] }

----------------------------------------------------------------------------
(* Authentication and authorization middleware *)

API_KEY == "techhive-2025"

\* The accounts tokens are issued for and checked against
mockUsers ==
    { [id |-> "1", email |-> "admin@techhive.com", password |-> "admin123",
       role |-> "admin", name |-> "Admin User"],
      [id |-> "2", email |-> "manager@techhive.com", password |-> "manager123",
       role |-> "manager", name |-> "Manager User"],
      [id |-> "3", email |-> "user@techhive.com", password |-> "user123",
       role |-> "user", name |-> "Regular User"] }

\* A JSON web token: the number of dot-separated parts of the string, the
\* secret it is signed with, its expiry and its claims ("" for a claim that is
\* missing)
Token(secret, exp, id, email, role) ==
    [parts |-> 3, secret |-> secret, exp |-> exp, id |-> id, email |-> email,
     role |-> role]

\* A bearer string that is not three dot-separated parts
Malformed == [Token("", 0, "", "", "") EXCEPT !.parts = 1]

\* A verification that still accepts a token at the instant of its expiry
JwtVerify_ExpiryInclusive(token, t) ==
    IF token.parts # 3 \/ token.secret # "JWT_SECRET" THEN "JsonWebTokenError"
    ELSE IF t > token.exp THEN "TokenExpiredError"
    ELSE "ok"

\* jwt.verify(token, JWT_SECRET) at clock reading t: the error it throws, or
\* "ok".  The signature is checked before the expiry.
JwtVerify(token, t) ==
    IF token.parts # 3 \/ token.secret # "JWT_SECRET" THEN "JsonWebTokenError"
    ELSE IF t >= token.exp THEN "TokenExpiredError"
    ELSE "ok"

\* The credentials of a request: the x-api-key header (keyHeader tells whether
\* the request has one; its value is "" when it is absent or sent empty, which
\* the code's truthiness tests do not tell apart), the Authorization header
\* (absent, of another scheme, "Bearer " alone, or "Bearer <token>") and the
\* x-access-token header (absent unless added)
Credentials(apiKey, authKind, token) ==
    [keyHeader |-> apiKey # "", apiKey |-> apiKey, authKind |-> authKind, token |-> token,
     hasAccessToken |-> FALSE, accessToken |-> Token("", 0, "", "", "")]

\* The same request with an x-api-key header that has no value
WithEmptyKey(cred) == [cred EXCEPT !.keyHeader = TRUE, !.apiKey = ""]

WithAccessToken(cred, token) ==
    [cred EXCEPT !.hasAccessToken = TRUE, !.accessToken = token]

NoToken == Token("", 0, "", "", "")
NoUser  == [id |-> "", email |-> "", role |-> "", tokenType |-> "none"]

\* What a middleware did with a request: whether the request goes on (next),
\* the principal on the request afterwards, the status and code of the
\* response it sent (0 and "" when it sent none), and how many times it
\* called next() and how many responses it sent
\* res.status(status).json(...); return
Rejects(status, code) ==
    [next |-> FALSE, user |-> NoUser, status |-> status, code |-> code,
     nexts |-> 0, sends |-> 1]
\* req.user = user; return next().  The router runs the handlers next() leads
\* to inside its own try/catch, so the call returns and the catch blocks
\* around it are not entered.
Passes(user) ==
    [next |-> TRUE, user |-> user, status |-> 0, code |-> "",
     nexts |-> 1, sends |-> 0]

\* res.status(403).json(...); return, on a request that carries `user`
Forbids(user) ==
    [next |-> FALSE, user |-> user, status |-> 403, code |-> "INSUFFICIENT_PERMISSIONS",
     nexts |-> 0, sends |-> 1]

\* An authenticate that goes on to the bearer token when the key is wrong
authenticate_KeyFallsThrough(cred, t) ==
    IF cred.apiKey = API_KEY
    THEN Passes([id |-> "api-key-user", email |-> "api@techhive.com",
                 role |-> "admin", tokenType |-> "api-key"])
    ELSE IF cred.authKind = "bearer-empty"
    THEN Rejects(401, "TOKEN_REQUIRED")
    ELSE IF cred.authKind = "bearer"
    THEN LET decoded == cred.token
             verdict == JwtVerify(decoded, t)
         IN  IF verdict = "TokenExpiredError" THEN Rejects(401, "TOKEN_EXPIRED")
             ELSE IF verdict # "ok" THEN Rejects(401, "TOKEN_VALIDATION_FAILED")
             ELSE IF decoded.id = "" \/ decoded.email = "" \/ decoded.role = ""
             THEN Rejects(401, "INVALID_TOKEN_PAYLOAD")
             ELSE IF ~\E u \in mockUsers : u.id = decoded.id /\ u.email = decoded.email
             THEN Rejects(401, "USER_NOT_FOUND")
             ELSE Passes([id |-> decoded.id, email |-> decoded.email,
                          role |-> decoded.role, tokenType |-> "jwt"])
    ELSE IF cred.apiKey # "" THEN Rejects(401, "INVALID_API_KEY")
    ELSE Rejects(401, "AUTHENTICATION_REQUIRED")

\* An authenticate that answers a wrong key and, for want of a return, goes on
\* to the Authorization header
authenticate_NoReturnAfterBadKey(cred, t) ==
    IF cred.apiKey \notin {"", API_KEY}
    THEN LET rest == authenticate_KeyFallsThrough([cred EXCEPT !.apiKey = ""], t)
         IN  [rest EXCEPT !.status = 401, !.code = "INVALID_API_KEY", !.sends = @ + 1]
    ELSE authenticate_KeyFallsThrough(cred, t)

\* authenticate: whether it calls next(), the principal it attaches to the
\* request, and otherwise the response it sends
authenticate(cred, t) ==
    IF cred.apiKey # ""
    THEN IF cred.apiKey = API_KEY
         THEN Passes([id |-> "api-key-user", email |-> "api@techhive.com",
                      role |-> "admin", tokenType |-> "api-key"])
         ELSE Rejects(401, "INVALID_API_KEY")
    ELSE IF cred.authKind = "bearer-empty"
    THEN Rejects(401, "TOKEN_REQUIRED")
    ELSE IF cred.authKind = "bearer"
    THEN LET decoded == cred.token
             verdict == JwtVerify(decoded, t)
         IN  IF verdict = "TokenExpiredError" THEN Rejects(401, "TOKEN_EXPIRED")
             ELSE IF verdict # "ok" THEN Rejects(401, "TOKEN_VALIDATION_FAILED")
             ELSE IF decoded.id = "" \/ decoded.email = "" \/ decoded.role = ""
             THEN Rejects(401, "INVALID_TOKEN_PAYLOAD")
             ELSE IF ~\E u \in mockUsers : u.id = decoded.id /\ u.email = decoded.email
             THEN Rejects(401, "USER_NOT_FOUND")
             ELSE Passes([id |-> decoded.id, email |-> decoded.email,
                          role |-> decoded.role, tokenType |-> "jwt"])
    ELSE Rejects(401, "AUTHENTICATION_REQUIRED")

\* An authorize for which an empty list of roles admits nobody
authorize_EmptyDenies(allowedRoles, user) ==
    IF user = NoUser THEN Rejects(401, "AUTH_REQUIRED")
    ELSE IF user.role \notin allowedRoles
    THEN Forbids(user)
    ELSE Passes(user)

\* authorize(...allowedRoles) on a request carrying `user`
authorize(allowedRoles, user) ==
    IF user = NoUser THEN Rejects(401, "AUTH_REQUIRED")
    ELSE IF allowedRoles # {} /\ user.role \notin allowedRoles
    THEN Forbids(user)
    ELSE Passes(user)

\* router.use(authenticate), then the route's authorize(...)
Guard(cred, allowedRoles, t) ==
    LET a == authenticate(cred, t)
    IN  IF a.next THEN authorize(allowedRoles, a.user) ELSE a

----------------------------------------------------------------------------
(* login *)

\* expiresIn: '24h', in the unit of the model's clock
ExpiresIn == 2

\* req.body of a login request; "" stands for a field that is missing or empty
LoginBody(email, password) == [email |-> email, password |-> password]

\* A login that goes straight to the lookup, so that a missing field is an
\* unknown pair
login_NoMissingCheck(body, t) ==
    IF ~\E u \in mockUsers : u.email = body.email /\ u.password = body.password
    THEN [status |-> 401, code |-> "INVALID_CREDENTIALS", token |-> NoToken, user |-> NoUser]
    ELSE LET user == CHOOSE u \in mockUsers :
                         u.email = body.email /\ u.password = body.password
         IN  [status |-> 200, code |-> "",
              token |-> Token("JWT_SECRET", t + ExpiresIn, user.id, user.email, user.role),
              user |-> [id |-> user.id, name |-> user.name, email |-> user.email,
                        role |-> user.role]]

\* login: the status and code of its response and, on success, the token it
\* signs and the user fields it returns beside it
login(body, t) ==
    IF body.email = "" \/ body.password = ""
    THEN [status |-> 400, code |-> "MISSING_CREDENTIALS", token |-> NoToken, user |-> NoUser]
    ELSE IF ~\E u \in mockUsers : u.email = body.email /\ u.password = body.password
    THEN [status |-> 401, code |-> "INVALID_CREDENTIALS", token |-> NoToken, user |-> NoUser]
    ELSE LET user == CHOOSE u \in mockUsers :
                         u.email = body.email /\ u.password = body.password
         IN  [status |-> 200, code |-> "",
              token |-> Token("JWT_SECRET", t + ExpiresIn, user.id, user.email, user.role),
              user |-> [id |-> user.id, name |-> user.name, email |-> user.email,
                        role |-> user.role]]

----------------------------------------------------------------------------
(* tokenValidation: validateToken, revokeToken, requireRole *)

\* The accounts validateToken checks a token's subject against
validUsers ==
    { [id |-> "1", email |-> "admin@techhive.com", role |-> "admin", name |-> "Admin User"],
      [id |-> "2", email |-> "manager@techhive.com", role |-> "manager", name |-> "Manager User"],
      [id |-> "3", email |-> "user@techhive.com", role |-> "user", name |-> "Regular User"] }

isValidJWTStructure(token) == token.parts = 3

isTokenBlacklisted(token) == token \in tokenBlacklist

\* validateToken: whether it calls next(), the principal it attaches to the
\* request, and otherwise the response it sends
validateToken(cred, t) ==
    IF cred.apiKey # ""
    THEN IF cred.apiKey = API_KEY
         THEN Passes([id |-> "api-key-user", email |-> "api@techhive.com",
                      role |-> "admin", tokenType |-> "api-key"])
         ELSE Rejects(401, "INVALID_API_KEY")
    ELSE LET bearer   == cred.authKind \in {"bearer", "bearer-empty"}
             hasToken == \/ cred.authKind = "bearer"
                         \/ ~bearer /\ cred.hasAccessToken
             token    == IF bearer THEN cred.token ELSE cred.accessToken
             verdict  == JwtVerify(token, t)
         IN  IF ~hasToken THEN Rejects(401, "TOKEN_REQUIRED")
             ELSE IF ~isValidJWTStructure(token) THEN Rejects(401, "INVALID_TOKEN_FORMAT")
             ELSE IF isTokenBlacklisted(token) THEN Rejects(401, "TOKEN_REVOKED")
             ELSE IF verdict = "TokenExpiredError" THEN Rejects(401, "TOKEN_EXPIRED")
             ELSE IF verdict # "ok" THEN Rejects(401, "INVALID_TOKEN_SIGNATURE")
             ELSE IF token.id = "" \/ token.email = "" \/ token.role = ""
             THEN Rejects(401, "INVALID_TOKEN_PAYLOAD")
             ELSE IF ~\E u \in validUsers : u.id = token.id /\ u.email = token.email
             THEN Rejects(401, "USER_NOT_FOUND")
             ELSE IF token.exp < t THEN Rejects(401, "TOKEN_EXPIRED")
             ELSE Passes([id |-> token.id, email |-> token.email, role |-> token.role,
                          tokenType |-> "jwt", expiresAt |-> token.exp])

\* requireRole(...allowedRoles) on a request carrying `user`
requireRole(allowedRoles, user) ==
    IF user = NoUser THEN Rejects(401, "AUTH_REQUIRED")
    ELSE IF allowedRoles # {} /\ user.role \notin allowedRoles
    THEN Forbids(user)
    ELSE Passes(user)

\* What a response says about roles: the roles named in its error text and
\* the userRole and requiredRoles fields, when it has them
NoRoleReport ==
    [textRequired |-> {}, textRole |-> "", hasFields |-> FALSE,
     requiredRoles |-> {}, userRole |-> ""]

\* The 403 payload of authorize
authorizeDenial(allowedRoles, user) ==
    [textRequired |-> allowedRoles, textRole |-> user.role, hasFields |-> TRUE,
     requiredRoles |-> allowedRoles, userRole |-> user.role]

\* The 403 payload of requireRole
requireRoleDenial(allowedRoles, user) ==
    [textRequired |-> allowedRoles, textRole |-> user.role, hasFields |-> FALSE,
     requiredRoles |-> {}, userRole |-> ""]

----------------------------------------------------------------------------
(* Calls of the middleware functions and of login *)

NoLoginBody == LoginBody("", "")

\* What `auth` records of a call: the function, its inputs (the request's
\* credentials, the roles of the route, the principal already on the request,
\* the login body, the token handed to revokeToken), the clock reading and the
\* revoked tokens when it began, and its outcome
AuthCall(fn, cred, allowedRoles, given, body, revoked, o, report, issued) ==
    [fn |-> fn, cred |-> cred, allowedRoles |-> allowedRoles, given |-> given,
     body |-> body, revoked |-> revoked, at |-> now, blacklist |-> tokenBlacklist,
     next |-> o.next, user |-> o.user, status |-> o.status, code |-> o.code,
     nexts |-> o.nexts, sends |-> o.sends, report |-> report, issued |-> issued]

----------------------------------------------------------------------------
(* The validation middleware: validateCreateUser, validateUpdateUser *)

\* What a validation middleware does with a request: whether it calls next(),
\* and otherwise the status and the `errors` list of the response it sends
Validation(errors) ==
    [next |-> errors = << >>, status |-> IF errors = << >> THEN 0 ELSE 400,
     errors |-> errors]

\* One entry of `errors`, pushed when its test fails
Pushed(fails, message) == IF fails THEN <<message>> ELSE << >>

\* validateCreateUser on req.body.  The payloads of the model carry strings
\* for name and email and numbers for age, so the typeof tests pass; !name and
\* !email are true of a missing and of an empty string, !age of a missing age
\* and of 0.  The pattern is tested on the email as sent.
validateCreateUser(body) ==
    Validation(
        Pushed(~body.hasName \/ body.name = << >> \/ Len(Trim(body.name)) < 2,
               "Name must be at least 2 characters long")
        \o Pushed(~body.hasEmail \/ body.email = << >> \/ ~EmailPattern(body.email),
                  "Valid email is required")
        \o Pushed(~body.hasAge \/ body.age = 0 \/ body.age < 0 \/ body.age > 150,
                  "Age must be a number between 0 and 150"))

\* validateUpdateUser on req.body: each field is tested when it is present
validateUpdateUser(body) ==
    Validation(
        Pushed(body.hasName /\ Len(Trim(body.name)) < 2,
               "Name must be at least 2 characters long")
        \o Pushed(body.hasEmail /\ ~EmailPattern(body.email),
                  "Valid email is required")
        \o Pushed(body.hasAge /\ (body.age < 0 \/ body.age > 150),
                  "Age must be a number between 0 and 150"))

\* What `validated` records of a call
ValidationCall(fn, body, o) ==
    [fn |-> fn, body |-> body, next |-> o.next, status |-> o.status, errors |-> o.errors]

NoValidation ==
    [fn |-> "none", body |-> EmptyBody, next |-> FALSE, status |-> 0, errors |-> << >>]

----------------------------------------------------------------------------
(* UserController *)

DigitChars == <<"0","1","2","3","4","5","6","7","8","9">>

IsDigit(c) == \E i \in DOMAIN DigitChars : DigitChars[i] = c

DigitValue(c) == (CHOOSE i \in DOMAIN DigitChars : DigitChars[i] = c) - 1

RECURSIVE DecimalValue(_)
DecimalValue(ds) ==
    IF ds = << >> THEN 0
    ELSE 10 * DecimalValue(SubSeq(ds, 1, Len(ds) - 1)) + DigitValue(ds[Len(ds)])

\* parseInt(s) without a radix, for decimal input: leading white space, an
\* optional sign, then the longest run of digits; NaN when there is none
ParseInt(s) ==
    LET start  == IF \A i \in 1..Len(s) : s[i] \in Whitespace THEN Len(s) + 1
                  ELSE CHOOSE i \in 1..Len(s) :
                           s[i] \notin Whitespace /\ \A j \in 1..(i - 1) : s[j] \in Whitespace
        t      == SubSeq(s, start, Len(s))
        signed == t # << >> /\ t[1] \in {"-", "+"}
        body   == IF signed THEN Tail(t) ELSE t
        k      == CHOOSE n \in 0..Len(body) :
                      /\ \A i \in 1..n : IsDigit(body[i])
                      /\ n = Len(body) \/ ~IsDigit(body[n + 1])
        value  == DecimalValue(SubSeq(body, 1, k))
    IN  IF k = 0 THEN NaN
        ELSE IF signed /\ t[1] = "-" THEN Num(0 - value) ELSE Num(value)

\* req.query; a parameter that is absent is the empty string
NoQuery == [active |-> "", role |-> "", minAge |-> << >>, maxAge |-> << >>, search |-> << >>]

\* The UserFilters UserController.getAllUsers builds from the query
ListFilters(query) ==
    [activeOnly |-> query.active = "true",
     hasRole |-> query.role # "", role |-> query.role,
     hasMinAge |-> query.minAge # << >>,
     minAge |-> IF query.minAge # << >> THEN ParseInt(query.minAge) ELSE NaN,
     hasMaxAge |-> query.maxAge # << >>,
     maxAge |-> IF query.maxAge # << >> THEN ParseInt(query.maxAge) ELSE NaN,
     hasSearch |-> query.search # << >>, search |-> query.search]

\* The UserFilters UserController.getUsersByAge builds from the query
AgeFilters(query) ==
    [NoFilters EXCEPT
        !.hasMinAge = query.minAge # << >>,
        !.minAge = IF query.minAge # << >> THEN ParseInt(query.minAge) ELSE NaN,
        !.hasMaxAge = query.maxAge # << >>,
        !.maxAge = IF query.maxAge # << >> THEN ParseInt(query.maxAge) ELSE NaN]

\* The range checks of UserController.getUsersByAge; "none" when all pass
AgeRangeError(query) ==
    LET f == AgeFilters(query)
    IN  IF f.hasMinAge /\ (f.minAge.nan \/ f.minAge.val < 0)
        THEN "minAge must be a valid number >= 0"
        ELSE IF f.hasMaxAge /\ (f.maxAge.nan \/ f.maxAge.val < 0)
        THEN "maxAge must be a valid number >= 0"
        ELSE IF f.hasMinAge /\ f.hasMaxAge /\ f.minAge.val > f.maxAge.val
        THEN "minAge cannot be greater than maxAge"
        ELSE "none"

\* What `http` records of an exchange
Exchange(route, cred, id, query, user, status, code, error) ==
    [route |-> route, cred |-> cred, id |-> id, query |-> query, at |-> now,
     before |-> users, blacklist |-> tokenBlacklist,
     user |-> user, status |-> status, code |-> code, error |-> error]

\* The middleware chain answered; the controller never ran
Denied(route, cred, id, query, g) ==
    /\ http' = Exchange(route, cred, id, query, g.user, g.status, g.code, "")
    /\ UNCHANGED <<users, now, uuidCount, heldIds, last>>

\* The message of the ApiError a UserService call threw
ErrorMessage(call) ==
    IF call.status = 400 THEN CreateValidationError(call.body)
    ELSE IF call.status = 404 THEN "User not found"
    ELSE IF call.status = 409 THEN "User with this email already exists"
    ELSE ""

\* The controller's response after its UserService call: the success status,
\* or what errorHandler makes of the ApiError the call threw (its statusCode,
\* its code, and its message as the one `error` string of the payload)
Served(route, cred, id, query, g, success) ==
    http' = Exchange(route, cred, id, query, g.user,
                     IF last'.status = 0 THEN success ELSE last'.status,
                     IF last'.status = 0 THEN "" ELSE last'.code,
                     ErrorMessage(last'))

\* The controller answered 400 without calling UserService
BadRequest(route, cred, id, query, g, error) ==
    /\ http' = Exchange(route, cred, id, query, g.user, 400, "", error)
    /\ UNCHANGED <<users, now, uuidCount, heldIds, last>>

----------------------------------------------------------------------------
(* The wired routes of /api/users *)

ApiKeyGood    == Credentials(API_KEY, "absent", NoToken)
NoCredentials == Credentials("", "absent", NoToken)
BearerManager ==
    Credentials("", "bearer",
                Token("JWT_SECRET", ClockEnd + 1, "2", "manager@techhive.com", "manager"))
\* A token of the user account that expires one tick into the run
BearerUser ==
    Credentials("", "bearer",
                Token("JWT_SECRET", StartTime + 1, "3", "user@techhive.com", "user"))

CredentialInputs == {ApiKeyGood, NoCredentials, BearerManager, BearerUser}

RouteCreateBodies ==
    { Body(Str_Al, Str_New, 40),
      Body(Str_Al, Str_JohnUpper, 40),
      Body(Str_A, Str_Bad, 200),
      WithRole(Body(Str_Bo, Str_NewUpper, 0), "superuser") }

RouteUpdateBodies ==
    { EmptyBody,
      WithAge(EmptyBody, 200),
      WithAge(WithName(EmptyBody, Str_Al), 150),
      WithEmail(WithRole(EmptyBody, "superuser"), Str_JaneUpper) }

RouteIds == {"2", "nope"}

AgeQuery(lo, hi) == [NoQuery EXCEPT !.minAge = lo, !.maxAge = hi]

QueryInputs ==
    { NoQuery,
      AgeQuery(<<"3","0">>, <<"2","0">>),
      AgeQuery(<<"2","8">>, <<"3","2">>),
      AgeQuery(<<"3","0">>, << >>),
      AgeQuery(<<"a","b","c">>, <<"4","0">>),
      AgeQuery(<<"0">>, <<"-","1">>),
      [AgeQuery(<<" ","2","5","x">>, << >>) EXCEPT !.active = "true"] }

NoExchange ==
    [route |-> "none", cred |-> NoCredentials, id |-> "", query |-> NoQuery,
     at |-> StartTime, before |-> SeedUsers, blacklist |-> {},
     user |-> NoUser, status |-> 0, code |-> "", error |-> ""]

NoAuthCall ==
    [fn |-> "none", cred |-> NoCredentials, allowedRoles |-> {}, given |-> NoUser,
     body |-> NoLoginBody, revoked |-> NoToken, at |-> StartTime, blacklist |-> {},
     next |-> FALSE, user |-> NoUser, status |-> 0, code |-> "",
     nexts |-> 0, sends |-> 0, report |-> NoRoleReport, issued |-> NoToken]

Init ==
    /\ users = SeedUsers
    /\ now = StartTime
    /\ uuidCount = 0
    /\ heldIds = {SeedUsers[i].id : i \in DOMAIN SeedUsers}
    /\ ops = 0
    /\ last = [op |-> "none", id |-> "", body |-> EmptyBody, term |-> << >>,
               filters |-> NoFilters, at |-> StartTime, status |-> 0, code |-> "OK",
               before |-> SeedUsers, held |-> {SeedUsers[i].id : i \in DOMAIN SeedUsers},
               result |-> << >>, streak |-> NoStreak]
    /\ http = NoExchange
    /\ tokenBlacklist = {}
    /\ auth = NoAuthCall
    /\ validated = NoValidation
    /\ calls = << >>

\* Time passes between calls
Tick ==
    /\ now < ClockEnd
    /\ now' = now + 1
    /\ UNCHANGED <<users, uuidCount, heldIds, ops, last, http, tokenBlacklist, auth, validated, calls>>

Request == ops < MaxOps /\ ops' = ops + 1 /\ UNCHANGED <<tokenBlacklist, auth, validated, calls>>

PostUsers ==
    /\ Request
    /\ \E cred \in CredentialInputs :
        LET g == Guard(cred, {"admin", "manager"}, now)
        IN  IF ~g.next THEN Denied("POST /users", cred, "", NoQuery, g)
            ELSE \E b \in RouteCreateBodies :
                    /\ createUser(b)
                    /\ Served("POST /users", cred, "", NoQuery, g, 201)

PutUser ==
    /\ Request
    /\ \E cred \in CredentialInputs : \E id \in RouteIds :
        LET g == Guard(cred, {"admin", "manager"}, now)
        IN  IF ~g.next THEN Denied("PUT /users/:id", cred, id, NoQuery, g)
            ELSE \E b \in RouteUpdateBodies :
                    /\ updateUser(id, b)
                    /\ Served("PUT /users/:id", cred, id, NoQuery, g, 200)

PatchToggleStatus ==
    /\ Request
    /\ \E cred \in CredentialInputs : \E id \in RouteIds :
        LET g == Guard(cred, {"admin", "manager"}, now)
        IN  IF ~g.next THEN Denied("PATCH /users/:id/toggle-status", cred, id, NoQuery, g)
            ELSE /\ toggleUserStatus(id)
                 /\ Served("PATCH /users/:id/toggle-status", cred, id, NoQuery, g, 200)

\* DELETE /users/:id open to managers as well
DeleteUser_ManagersToo ==
    /\ Request
    /\ \E cred \in CredentialInputs : \E id \in RouteIds :
        LET g == Guard(cred, {"admin", "manager"}, now)
        IN  IF ~g.next THEN Denied("DELETE /users/:id", cred, id, NoQuery, g)
            ELSE /\ deleteUser(id)
                 /\ Served("DELETE /users/:id", cred, id, NoQuery, g, 200)

DeleteUser ==
    /\ Request
    /\ \E cred \in CredentialInputs : \E id \in RouteIds :
        LET g == Guard(cred, {"admin"}, now)
        IN  IF ~g.next THEN Denied("DELETE /users/:id", cred, id, NoQuery, g)
            ELSE /\ deleteUser(id)
                 /\ Served("DELETE /users/:id", cred, id, NoQuery, g, 200)

GetUser ==
    /\ Request
    /\ \E cred \in CredentialInputs : \E id \in RouteIds :
        LET g == Guard(cred, {"admin", "manager", "user"}, now)
        IN  IF ~g.next THEN Denied("GET /users/:id", cred, id, NoQuery, g)
            ELSE /\ getUserById(id)
                 /\ Served("GET /users/:id", cred, id, NoQuery, g, 200)

GetUsers ==
    /\ Request
    /\ \E cred \in CredentialInputs : \E query \in QueryInputs :
        LET g == Guard(cred, {"admin", "manager", "user"}, now)
        IN  IF ~g.next THEN Denied("GET /users", cred, "", query, g)
            ELSE /\ getAllUsers(ListFilters(query))
                 /\ Served("GET /users", cred, "", query, g, 200)

GetUsersByAge ==
    /\ Request
    /\ \E cred \in CredentialInputs : \E query \in QueryInputs :
        LET g == Guard(cred, {"admin", "manager", "user"}, now)
        IN  IF ~g.next THEN Denied("GET /users/age", cred, "", query, g)
            ELSE IF AgeRangeError(query) # "none"
            THEN BadRequest("GET /users/age", cred, "", query, g, AgeRangeError(query))
            ELSE /\ getAllUsers(AgeFilters(query))
                 /\ Served("GET /users/age", cred, "", query, g, 200)

RouteNext ==
    \/ Tick
    \/ PostUsers
    \/ PutUser
    \/ PatchToggleStatus
    \/ DeleteUser
    \/ GetUser
    \/ GetUsers
    \/ GetUsersByAge

RouteSpec == Init /\ [][RouteNext]_vars

----------------------------------------------------------------------------
(* The store driven through the public methods of UserService *)

\* A call of a public method of the store, counted against the run's budget
Counted == ops' = ops + 1 /\ UNCHANGED <<http, tokenBlacklist, auth, validated, calls>>

CallCreateUser  == ops < MaxOps /\ \E b \in CreateBodies : createUser(b) /\ Counted
CallUpdateUser  == ops < MaxOps /\ \E id \in Ids : \E b \in UpdateBodies : updateUser(id, b) /\ Counted
CallToggleUserStatus == ops < MaxOps /\ \E id \in Ids : toggleUserStatus(id) /\ Counted
CallDeleteUser  == ops < MaxOps /\ \E id \in Ids : deleteUser(id) /\ Counted
CallGetUserById == ops < MaxOps /\ \E id \in Ids : getUserById(id) /\ Counted
CallGetAllUsers == ops < MaxOps /\ \E f \in FilterInputs : getAllUsers(f) /\ Counted
CallSearchUsers == ops < MaxOps /\ \E t \in SearchTerms : searchUsers(t) /\ Counted
CallGetUserStats == ops < MaxOps /\ getUserStats /\ Counted

Next ==
    \/ Tick
    \/ CallCreateUser
    \/ CallUpdateUser
    \/ CallToggleUserStatus
    \/ CallDeleteUser
    \/ CallGetUserById
    \/ CallGetAllUsers
    \/ CallSearchUsers
    \/ CallGetUserStats

Spec == Init /\ [][Next]_vars

\* The store emptied one deleteUser call at a time, with calls that count
\* toward MaxOps in between
DrainUser ==
    \E id \in {SeedUsers[i].id : i \in DOMAIN SeedUsers} :
        deleteUser(id) /\ UNCHANGED <<ops, http, tokenBlacklist, auth, validated, calls>>

StatsNext ==
    \/ Tick
    \/ DrainUser
    \/ CallToggleUserStatus
    \/ CallGetUserStats

StatsSpec == Init /\ [][StatsNext]_vars

----------------------------------------------------------------------------
(* The middleware functions and login, called one at a time *)

TokenForged  == Token("another-secret", ClockEnd + 1, "1", "admin@techhive.com", "admin")
TokenGhost   == Token("JWT_SECRET", ClockEnd + 1, "9", "gone@techhive.com", "admin")
TokenNoRole  == Token("JWT_SECRET", ClockEnd + 1, "3", "user@techhive.com", "")
TokenLapsedGhost == Token("JWT_SECRET", StartTime, "9", "gone@techhive.com", "")
TokenLapsedForged == Token("another-secret", StartTime, "2", "manager@techhive.com", "manager")
TokenLapsedUnknown == Token("JWT_SECRET", StartTime, "9", "gone@techhive.com", "admin")

Bearer(token) == Credentials("", "bearer", token)
KeyAndBearer(apiKey, token) == Credentials(apiKey, "bearer", token)

AuthCredentialInputs ==
    { ApiKeyGood, NoCredentials, BearerManager, BearerUser,
      Bearer(TokenForged), Bearer(TokenGhost), Bearer(TokenNoRole),
      Bearer(TokenLapsedGhost), Bearer(TokenLapsedForged), Bearer(Malformed),
      Bearer(TokenLapsedUnknown),
      Credentials("", "bearer-empty", NoToken),
      Credentials("", "other", NoToken),
      KeyAndBearer(API_KEY, BearerManager.token),
      KeyAndBearer(API_KEY, BearerUser.token),
      KeyAndBearer(API_KEY, TokenForged),
      KeyAndBearer(API_KEY, Malformed),
      Credentials("wrong-key", "absent", NoToken),
      KeyAndBearer("wrong-key", BearerManager.token),
      KeyAndBearer("wrong-key", BearerUser.token),
      KeyAndBearer("TECHHIVE-2025", TokenLapsedGhost),
      WithEmptyKey(NoCredentials),
      WithEmptyKey(BearerManager),
      WithAccessToken(NoCredentials, BearerManager.token),
      WithAccessToken(Credentials("", "other", NoToken), BearerUser.token),
      WithAccessToken(Credentials("", "bearer-empty", NoToken), BearerManager.token),
      WithAccessToken(Credentials("wrong-key", "absent", NoToken), BearerManager.token) }

RevocableTokens == {BearerManager.token, BearerUser.token}

RoleListInputs == { {}, {"admin"}, {"admin", "manager"}, {"admin", "manager", "user"} }

PrincipalInputs ==
    { NoUser,
      [id |-> "api-key-user", email |-> "api@techhive.com", role |-> "admin",
       tokenType |-> "api-key"],
      [id |-> "2", email |-> "manager@techhive.com", role |-> "manager", tokenType |-> "jwt"],
      [id |-> "3", email |-> "user@techhive.com", role |-> "user", tokenType |-> "jwt"],
      [id |-> "3", email |-> "user@techhive.com", role |-> "guest", tokenType |-> "jwt"] }

LoginBodies ==
    { LoginBody("", ""),
      LoginBody("admin@techhive.com", ""),
      LoginBody("", "admin123"),
      LoginBody("admin@techhive.com", "admin123"),
      LoginBody("manager@techhive.com", "manager123"),
      LoginBody("user@techhive.com", "user123"),
      LoginBody("user@techhive.com", "admin123"),
      LoginBody("Admin@techhive.com", "admin123"),
      LoginBody("nobody@techhive.com", "nobody123") }

\* A middleware call: it touches nothing but the request and the response
Middleware(call) ==
    /\ auth' = call
    /\ ops' = ops + 1
    /\ UNCHANGED <<users, now, uuidCount, heldIds, last, http, tokenBlacklist, validated, calls>>

CallAuthenticate ==
    /\ ops < MaxOps
    /\ \E cred \in AuthCredentialInputs :
           Middleware(AuthCall("authenticate", cred, {}, NoUser, NoLoginBody, NoToken,
                               authenticate(cred, now), NoRoleReport, NoToken))

CallValidateToken ==
    /\ ops < MaxOps
    /\ \E cred \in AuthCredentialInputs :
           Middleware(AuthCall("validateToken", cred, {}, NoUser, NoLoginBody, NoToken,
                               validateToken(cred, now), NoRoleReport, NoToken))

CallAuthorize ==
    /\ ops < MaxOps
    /\ \E allowedRoles \in RoleListInputs : \E user \in PrincipalInputs :
           LET o == authorize(allowedRoles, user)
           IN  Middleware(AuthCall("authorize", NoCredentials, allowedRoles, user,
                                   NoLoginBody, NoToken, o,
                                   IF o.status = 403 THEN authorizeDenial(allowedRoles, user)
                                   ELSE NoRoleReport,
                                   NoToken))

CallRequireRole ==
    /\ ops < MaxOps
    /\ \E allowedRoles \in RoleListInputs : \E user \in PrincipalInputs :
           LET o == requireRole(allowedRoles, user)
           IN  Middleware(AuthCall("requireRole", NoCredentials, allowedRoles, user,
                                   NoLoginBody, NoToken, o,
                                   IF o.status = 403 THEN requireRoleDenial(allowedRoles, user)
                                   ELSE NoRoleReport,
                                   NoToken))

\* POST /api/auth/login
CallLogin ==
    /\ ops < MaxOps
    /\ \E body \in LoginBodies :
           LET o == login(body, now)
           IN  Middleware(AuthCall("login", NoCredentials, {}, NoUser, body, NoToken,
                                   [next |-> FALSE, user |-> o.user, status |-> o.status,
                                    code |-> o.code, nexts |-> 0, sends |-> 1],
                                   NoRoleReport, o.token))

\* revokeToken(token): tokenBlacklist.add(token)
revokeToken(token) ==
    /\ tokenBlacklist' = tokenBlacklist \cup {token}
    /\ auth' = AuthCall("revokeToken", NoCredentials, {}, NoUser, NoLoginBody, token,
                        Passes(NoUser), NoRoleReport, NoToken)
    /\ UNCHANGED <<users, now, uuidCount, heldIds, last, http, validated, calls>>

CallRevokeToken ==
    /\ ops < MaxOps
    /\ ops' = ops + 1
    /\ \E token \in RevocableTokens : revokeToken(token)

AuthNext ==
    \/ Tick
    \/ CallAuthenticate
    \/ CallValidateToken
    \/ CallAuthorize
    \/ CallRequireRole
    \/ CallLogin
    \/ CallRevokeToken
    \/ GetUser

AuthSpec == Init /\ [][AuthNext]_vars

\* The wired routes, with tokens revoked between the requests
SessionNext ==
    \/ Tick
    \/ CallRevokeToken
    \/ PostUsers
    \/ PutUser
    \/ PatchToggleStatus
    \/ DeleteUser
    \/ GetUser
    \/ GetUsers
    \/ GetUsersByAge

SessionSpec == Init /\ [][SessionNext]_vars

----------------------------------------------------------------------------
(* UserService calls in flight together *)

\* The methods of UserService are async functions: a call runs without
\* interruption up to its first await and, when it has one, the rest runs as
\* a later job, after whatever other calls began or resumed in between.
\* createUser, updateUser, deleteUser and getUserById contain no await;
\* toggleUserStatus awaits getUserById and then calls updateUser.

Str_NewSpace == <<" ","n","e","w","@","x",".","i","o">>

ConcurrentCreateBodies ==
    { Body(Str_Al, Str_New, 40),
      Body(Str_Bo, Str_NewUpper, 150),
      Body(Str_Al, Str_NewSpace, 40),
      Body(Str_Al, Str_JohnUpper, 40),
      Body(Str_A, Str_New, 40) }

ConcurrentUpdateBodies ==
    { WithIsActive(EmptyBody, FALSE),
      WithName(EmptyBody, Str_Bo) }

ConcurrentIds == {"2", "4", "nope"}

\* A call whose promise has settled, with the outcome `last` has of it
Settled(op, id, body, outcome) ==
    [op |-> op, id |-> id, body |-> body, pc |-> "settled", read |-> << >>,
     status |-> outcome.status, code |-> outcome.code]

\* A toggleUserStatus suspended at its await, holding the record it read
Awaiting(id, user) ==
    [op |-> "toggleUserStatus", id |-> id, body |-> EmptyBody, pc |-> "awaiting",
     read |-> <<user>>, status |-> 0, code |-> ""]

Begun == ops' = ops + 1 /\ UNCHANGED <<http, tokenBlacklist, auth, validated>>

BeginCreateUser ==
    /\ ops < MaxOps
    /\ \E b \in ConcurrentCreateBodies :
           /\ createUser(b)
           /\ calls' = Append(calls, Settled("createUser", "", b, last'))
    /\ Begun

BeginUpdateUser ==
    /\ ops < MaxOps
    /\ \E id \in ConcurrentIds : \E b \in ConcurrentUpdateBodies :
           /\ updateUser(id, b)
           /\ calls' = Append(calls, Settled("updateUser", id, b, last'))
    /\ Begun

BeginDeleteUser ==
    /\ ops < MaxOps
    /\ \E id \in ConcurrentIds :
           /\ deleteUser(id)
           /\ calls' = Append(calls, Settled("deleteUser", id, EmptyBody, last'))
    /\ Begun

\* const user = await this.getUserById(id): the lookup, then the suspension
BeginToggleUserStatus ==
    /\ ops < MaxOps
    /\ \E id \in ConcurrentIds :
           /\ getUserById(id)
           /\ calls' = Append(calls,
                              IF last'.status = 0
                              THEN Awaiting(id, last'.result[1])
                              ELSE Settled("toggleUserStatus", id, EmptyBody, last'))
    /\ Begun

\* return this.updateUser(id, { isActive: !user.isActive })
ResumeToggleUserStatus ==
    \E r \in DOMAIN calls :
        /\ calls[r].pc = "awaiting"
        /\ updateUserAs("toggleUserStatus", calls[r].id,
                        WithIsActive(EmptyBody, ~calls[r].read[1].isActive))
        /\ calls' = [calls EXCEPT
                         ![r] = Settled("toggleUserStatus", calls[r].id, EmptyBody, last')]
        /\ UNCHANGED <<ops, http, tokenBlacklist, auth, validated>>

ConcurrentNext ==
    \/ Tick
    \/ BeginCreateUser
    \/ BeginUpdateUser
    \/ BeginDeleteUser
    \/ BeginToggleUserStatus
    \/ ResumeToggleUserStatus

ConcurrentSpec == Init /\ [][ConcurrentNext]_vars

----------------------------------------------------------------------------
(* The validation middleware and createUser, called one at a time *)

\* A validation middleware call: it touches nothing but the request and the
\* response
Validates(call) ==
    /\ validated' = call
    /\ ops' = ops + 1
    /\ UNCHANGED <<users, now, uuidCount, heldIds, last, http, tokenBlacklist, auth, calls>>

CallValidateCreateUser ==
    /\ ops < MaxOps
    /\ \E body \in CreateBodies :
           Validates(ValidationCall("validateCreateUser", body, validateCreateUser(body)))

CallValidateUpdateUser ==
    /\ ops < MaxOps
    /\ \E body \in UpdateBodies :
           Validates(ValidationCall("validateUpdateUser", body, validateUpdateUser(body)))

ValidationNext ==
    \/ Tick
    \/ CallValidateCreateUser
    \/ CallValidateUpdateUser
    \/ CallCreateUser

ValidationSpec == Init /\ [][ValidationNext]_vars

----------------------------------------------------------------------------
(* Properties *)

Roles == {"admin", "manager", "user"}

\* The position of the user with identifier id in the array us
Position(us, id) == CHOOSE i \in 1..Len(us) : us[i].id = id

\* The record the last call's target had before the call
Prior == last.before[Position(last.before, last.id)]

\* The last call was updateUser or toggleUserStatus, and it returned
Updated == last.op \in {"updateUser", "toggleUserStatus"} /\ last.status = 0

\* C1: no two stored users have emails that are equal up to letter case.
\* updateUser stores any email without the duplicate lookup, and createUser's
\* lookup compares the untrimmed address but stores the trimmed one.
C1_EmailsUniqueIgnoringCase ==
    \A i \in 1..Len(users) : \A j \in 1..Len(users) :
        i # j => ToLowerCase(users[i].email) # ToLowerCase(users[j].email)

\* C2: over requests to the wired routes, every stored user's age is in
\* [0,150].  PUT /users/:id reaches updateUser with no validation before it.
C2_AgesInRange ==
    \A i \in 1..Len(users) : users[i].age >= 0 /\ users[i].age <= 150

\* C3: every stored user's role is admin, manager or user.  Neither createUser
\* nor updateUser looks at the value of role.
C3_RolesInEnum ==
    \A i \in 1..Len(users) : users[i].role \in Roles

\* C4: a createUser call that returns has stored, as the last element, a user
\* whose identifier no stored user has had before, whose isActive is true and
\* whose createdAt equals its updatedAt.  The two timestamps are two separate
\* clock readings.
C4_CreatedFreshActiveOneTimestamp ==
    (last.op = "createUser" /\ last.status = 0) =>
        LET newUser == last.result[1]
        IN  /\ users = Append(last.before, newUser)
            /\ newUser.id \notin last.held
            /\ newUser.isActive
            /\ newUser.createdAt = newUser.updatedAt

\* The email of the last createUser call equals a stored one up to letter case
CaseDuplicate ==
    /\ last.op = "createUser"
    /\ last.body.hasEmail
    /\ \E i \in 1..Len(last.before) :
           ToLowerCase(last.before[i].email) = ToLowerCase(last.body.email)

\* C5 as stated: every createUser call whose email equals a stored one up to
\* letter case throws the 409 conflict and leaves the store as it was.
C5_CaseDuplicateConflicts ==
    CaseDuplicate =>
        last.status = 409 /\ last.code = "CONFLICT" /\ users = last.before

\* C5 as amended: the call throws the 409 conflict when the payload passes
\* createUser's own checks of name, email and age, and the 400 validation error
\* when it does not; the store is as it was either way.
C5_CaseDuplicateRejected ==
    CaseDuplicate =>
        /\ users = last.before
        /\ IF /\ last.body.hasName /\ Len(Trim(last.body.name)) >= 2
              /\ EmailPattern(Trim(last.body.email))
              /\ last.body.hasAge /\ last.body.age \in 0..150
           THEN last.status = 409 /\ last.code = "CONFLICT"
           ELSE last.status = 400 /\ last.code = "VALIDATION_ERROR"

C5_Witness ==
    /\ CaseDuplicate
    /\ last.status = 409
    /\ \A i \in 1..Len(last.before) : last.before[i].email # last.body.email

\* C6: after an updateUser call on an existing user, every field of name,
\* email, age, role and isActive the payload omits has its stored value, id
\* and createdAt are as before, and every other user is as before.
C6_UpdateKeepsOmittedFields ==
    Updated =>
        LET i == Position(last.before, last.id)
            old == last.before[i]
            new == users[i]
        IN  /\ Len(users) = Len(last.before)
            /\ \A j \in 1..Len(users) : j # i => users[j] = last.before[j]
            /\ new = last.result[1]
            /\ new.id = old.id
            /\ new.createdAt = old.createdAt
            /\ ~last.body.hasName => new.name = old.name
            /\ ~last.body.hasEmail => new.email = old.email
            /\ ~last.body.hasAge => new.age = old.age
            /\ ~last.body.hasRole => new.role = old.role
            /\ ~last.body.hasIsActive => new.isActive = old.isActive

C6_Witness ==
    /\ last.op = "updateUser" /\ last.status = 0
    /\ last.body.hasAge /\ last.body.hasName
    /\ ~last.body.hasEmail /\ ~last.body.hasRole
    /\ Prior.role # "user"
    /\ Prior.age # last.body.age

\* C7: a successful updateUser or toggleUserStatus leaves updatedAt strictly
\* greater than it was.  updatedAt is the clock reading of the call, which
\* equals the stored value when the previous write read the same millisecond.
C7_UpdatedAtStrictlyGreater ==
    Updated => last.result[1].updatedAt > Prior.updatedAt

\* C8 as stated: after two toggleUserStatus calls in a row on one user, the
\* user's record is what it was before the first, isActive and every other
\* field.
C8_ToggleTwiceRestoresRecord ==
    last.streak.count = 2 =>
        users[Position(users, last.streak.id)] = last.streak.original[1]

\* C8 as amended: after two toggleUserStatus calls in a row on one user,
\* isActive and every other field except updatedAt are what they were before
\* the first; updatedAt is the clock reading of the second call.
C8_ToggleTwiceRestoresAllButUpdatedAt ==
    last.streak.count = 2 =>
        LET user == users[Position(users, last.streak.id)]
            original == last.streak.original[1]
        IN  /\ user.isActive = original.isActive
            /\ user = [original EXCEPT !.updatedAt = last.at]
            /\ last.before[Position(last.before, last.streak.id)].isActive # original.isActive

C8_Witness ==
    /\ last.streak.count = 2
    /\ users[Position(users, last.streak.id)].updatedAt # last.streak.original[1].updatedAt

\* The query of the last exchange reached its controller with a minAge above
\* its maxAge
InvertedRange ==
    /\ http.route \in {"GET /users", "GET /users/age"}
    /\ http.status \notin {401, 403}
    /\ http.query.minAge # << >> /\ http.query.maxAge # << >>
    /\ ~ParseInt(http.query.minAge).nan /\ ~ParseInt(http.query.maxAge).nan
    /\ ParseInt(http.query.minAge).val > ParseInt(http.query.maxAge).val

\* C9: a list query with minAge above maxAge is answered 400, on GET /users as
\* on GET /users/age.  Only getUsersByAge checks the range.
C9_InvertedRangeIsBadRequest ==
    InvertedRange => http.status = 400

\* The term of a search is empty or white space only
Blank(term) == \A i \in 1..Len(term) : term[i] \in Whitespace

\* The users of us whose name or email contains term, letter case aside
Containing(us, term) ==
    LET Hit(u) == \/ Includes(ToLowerCase(u.name), ToLowerCase(term))
                  \/ Includes(ToLowerCase(u.email), ToLowerCase(term))
    IN  SelectSeq(us, Hit)

\* C10 as stated: searchUsers returns nothing for a blank term, and otherwise
\* exactly the stored users whose name or email contains the term, letter case
\* aside.
C10_SearchContainsTerm ==
    last.op = "searchUsers" =>
        /\ users = last.before
        /\ last.result = IF Blank(last.term) THEN << >>
                         ELSE Containing(last.before, last.term)

\* C10 as amended: for a term that is not blank, searchUsers returns exactly
\* the stored users whose name or email contains the term with its leading and
\* trailing white space removed, letter case aside.
C10_SearchContainsTrimmedTerm ==
    last.op = "searchUsers" =>
        /\ users = last.before
        /\ last.result = IF Blank(last.term) THEN << >>
                         ELSE Containing(last.before, Trim(last.term))

C10_Witness ==
    /\ last.op = "searchUsers"
    /\ ~Blank(last.term)
    /\ Trim(last.term) # last.term
    /\ last.result # << >>
    /\ Len(last.result) < Len(last.before)
    /\ last.result # Containing(last.before, last.term)

RECURSIVE SumCounts(_, _)
SumCounts(f, keys) ==
    IF keys = {} THEN 0
    ELSE LET k == CHOOSE x \in keys : TRUE IN f[k] + SumCounts(f, keys \ {k})

\* C11: getUserStats leaves the store alone and returns total equal to the
\* number of stored users, active and inactive counts that partition total,
\* and a byRole whose keys are exactly the roles some stored user holds, with
\* counts that sum to total; on an empty store it returns total 0, active 0,
\* inactive 0, an empty byRole and averageAge 0.
C11_StatsDescribeStore ==
    last.op = "getUserStats" =>
        LET stats == last.result[1]
            n     == Len(users)
        IN  /\ users = last.before
            /\ stats.total = n
            /\ stats.active = Cardinality({i \in 1..n : users[i].isActive})
            /\ stats.inactive = Cardinality({i \in 1..n : ~users[i].isActive})
            /\ stats.active + stats.inactive = stats.total
            /\ DOMAIN stats.byRole = {users[i].role : i \in 1..n}
            /\ \A r \in DOMAIN stats.byRole :
                   stats.byRole[r] = Cardinality({i \in 1..n : users[i].role = r})
            /\ SumCounts(stats.byRole, DOMAIN stats.byRole) = stats.total
            /\ n = 0 => /\ stats.total = 0 /\ stats.active = 0 /\ stats.inactive = 0
                        /\ DOMAIN stats.byRole = {}
                        /\ stats.averageAge = 0

C11_Witness ==
    /\ last.op = "getUserStats"
    /\ users = << >>
    /\ last.result[1].total = 0

\* The request carries no shared key, and a bearer token whose signature is
\* valid and whose expiry is not after t
LapsedBearer(cred, t) ==
    /\ cred.apiKey = ""
    /\ cred.authKind = "bearer"
    /\ cred.token.parts = 3 /\ cred.token.secret = "JWT_SECRET"
    /\ cred.token.exp <= t

\* C12: a request to a protected route with no shared key and a bearer token
\* of valid signature that has expired is answered 401 TOKEN_EXPIRED with no
\* principal attached, whatever the token's claims are; so is a direct call of
\* authenticate, and of validateToken for a token that is not revoked.
C12_ExpiredTokenRejected ==
    /\ (http.route # "none" /\ LapsedBearer(http.cred, http.at)) =>
           /\ http.status = 401 /\ http.code = "TOKEN_EXPIRED"
           /\ http.user = NoUser
    /\ (auth.fn = "authenticate" /\ LapsedBearer(auth.cred, auth.at)) =>
           /\ ~auth.next
           /\ auth.status = 401 /\ auth.code = "TOKEN_EXPIRED"
           /\ auth.user = NoUser
    /\ (/\ auth.fn = "validateToken" /\ LapsedBearer(auth.cred, auth.at)
        /\ auth.cred.token \notin auth.blacklist) =>
           /\ ~auth.next
           /\ auth.status = 401 /\ auth.code = "TOKEN_EXPIRED"
           /\ auth.user = NoUser

C12_Witness ==
    /\ http.route = "GET /users/:id"
    /\ LapsedBearer(http.cred, http.at)
    /\ http.cred.token.exp = http.at
    /\ http.code = "TOKEN_EXPIRED"
    /\ \E u \in mockUsers : u.id = http.cred.token.id /\ u.email = http.cred.token.email

\* The principal a request with the configured shared key is given
KeyPrincipal ==
    [id |-> "api-key-user", email |-> "api@techhive.com", role |-> "admin",
     tokenType |-> "api-key"]

\* C13 as stated: when a request has an x-api-key header, authenticate and
\* validateToken decide on the key alone, whatever bearer token comes with it:
\* the configured key gives the admin principal of kind api-key, any other
\* value gives 401 INVALID_API_KEY and no principal.
C13_KeyHeaderDecides ==
    (auth.fn \in {"authenticate", "validateToken"} /\ auth.cred.keyHeader) =>
        IF auth.cred.apiKey = API_KEY
        THEN auth.next /\ auth.user = KeyPrincipal
        ELSE /\ ~auth.next /\ auth.user = NoUser
             /\ auth.status = 401 /\ auth.code = "INVALID_API_KEY"

\* C13 as amended: the same for an x-api-key header whose value is not empty.
\* (A header with an empty value is to both functions no key at all.)
C13_SharedKeyDecides ==
    /\ (auth.fn \in {"authenticate", "validateToken"} /\ auth.cred.apiKey # "") =>
           IF auth.cred.apiKey = API_KEY
           THEN auth.next /\ auth.user = KeyPrincipal
           ELSE /\ ~auth.next /\ auth.user = NoUser
                /\ auth.status = 401 /\ auth.code = "INVALID_API_KEY"
    /\ (http.route # "none" /\ http.cred.apiKey # "") =>
           IF http.cred.apiKey = API_KEY
           THEN http.user = KeyPrincipal /\ http.status \notin {401, 403}
           ELSE /\ http.user = NoUser
                /\ http.status = 401 /\ http.code = "INVALID_API_KEY"

C13_Witness ==
    /\ auth.fn = "authenticate"
    /\ auth.cred.apiKey \notin {"", API_KEY}
    /\ auth.cred.authKind = "bearer"
    /\ JwtVerify(auth.cred.token, auth.at) = "ok"
    /\ auth.code = "INVALID_API_KEY"

StoredIds(us) == {us[i].id : i \in 1..Len(us)}

\* C14: a DELETE /users/:id answered 200 was made by an admin principal and
\* takes the record of that id out of the store; an identifier that was stored
\* once and is not stored now is not stored after any step; and a
\* GET /users/:id for such an identifier that gets past authenticate and
\* authorize is answered 404 NOT_FOUND.
C14_DeletedStaysGone ==
    [][ /\ (ops' # ops /\ http'.route = "DELETE /users/:id" /\ http'.status = 200) =>
              /\ http'.user.role = "admin"
              /\ http'.id \in StoredIds(users)
              /\ users' = SelectSeq(users, LAMBDA u : u.id # http'.id)
        /\ \A id \in heldIds \ StoredIds(users) : id \notin StoredIds(users')
        /\ (/\ ops' # ops /\ http'.route = "GET /users/:id"
            /\ http'.id \in heldIds \ StoredIds(users)
            /\ http'.status \notin {401, 403}) =>
              http'.status = 404 /\ http'.code = "NOT_FOUND"
      ]_vars

C14_Witness ==
    /\ http.route = "GET /users/:id"
    /\ http.id \in heldIds \ StoredIds(http.before)
    /\ http.status = 404

\* The create rules a payload violates
ViolatedCreateRules(userData) ==
    {rule \in {"name", "email", "age"} :
        \/ rule = "name" /\ (~userData.hasName \/ Len(Trim(userData.name)) < 2)
        \/ rule = "email" /\ (~userData.hasEmail \/ ~EmailPattern(Trim(userData.email)))
        \/ rule = "age" /\ (~userData.hasAge \/ userData.age < 0 \/ userData.age > 150)}

\* The error messages of a response: the payload errorHandler builds has one
\* `error` string
ErrorMessages(exchange) == IF exchange.error = "" THEN << >> ELSE <<exchange.error>>

\* C15: an authorized POST /users whose payload violates create rules is
\* answered 400 with one message for each rule it violates, and the store is
\* as it was.  createUser throws at the first rule that fails, so the response
\* carries one message however many rules are violated.
C15_EveryViolationReported ==
    (/\ http.route = "POST /users" /\ http.status \notin {401, 403}
     /\ ViolatedCreateRules(last.body) # {}) =>
        /\ http.status = 400
        /\ Len(ErrorMessages(http)) = Cardinality(ViolatedCreateRules(last.body))
        /\ users = http.before

\* C16: a request to a user route whose bearer token was handed to revokeToken
\* before it is answered 401 TOKEN_REVOKED.  The routes are guarded by
\* authenticate, which never looks at tokenBlacklist.
C16_RevokedTokenRejected ==
    (/\ http.route # "none"
     /\ http.cred.apiKey = "" /\ http.cred.authKind = "bearer"
     /\ http.cred.token \in http.blacklist) =>
        http.status = 401 /\ http.code = "TOKEN_REVOKED"

\* C17: a request whose bearer token is signed, unexpired and names as its
\* subject an identifier that a stored user once had and none has any more is
\* answered 401 USER_NOT_FOUND.  authenticate looks the subject up in
\* mockUsers, which no request changes, and never in the store.
C17_StaleSubjectRejected ==
    (/\ http.route # "none"
     /\ http.cred.apiKey = "" /\ http.cred.authKind = "bearer"
     /\ JwtVerify(http.cred.token, http.at) = "ok"
     /\ http.cred.token.id \in heldIds \ StoredIds(http.before)) =>
        http.status = 401 /\ http.code = "USER_NOT_FOUND"

\* C18: authorize (and requireRole) answers 401 AUTH_REQUIRED when the request
\* has no principal; answers 403 INSUFFICIENT_PERMISSIONS, naming the required
\* roles and the caller's role, when the principal's role is not in a
\* non-empty allowedRoles; and calls next() otherwise, always so when
\* allowedRoles is empty.  The principal, the store and the revoked tokens are
\* what they were.
C18_AuthorizeThreeOutcomes ==
    auth.fn \in {"authorize", "requireRole"} =>
        LET denied == /\ auth.given # NoUser /\ auth.allowedRoles # {}
                      /\ auth.given.role \notin auth.allowedRoles
        IN  /\ auth.given = NoUser =>
                   ~auth.next /\ auth.status = 401 /\ auth.code = "AUTH_REQUIRED"
            /\ denied =>
                   /\ ~auth.next
                   /\ auth.status = 403 /\ auth.code = "INSUFFICIENT_PERMISSIONS"
                   /\ auth.report.textRequired = auth.allowedRoles
                   /\ auth.report.textRole = auth.given.role
                   /\ auth.fn = "authorize" =>
                          /\ auth.report.hasFields
                          /\ auth.report.requiredRoles = auth.allowedRoles
                          /\ auth.report.userRole = auth.given.role
            /\ (auth.given # NoUser /\ ~denied) => auth.next /\ auth.status = 0
            /\ auth.user = auth.given
            /\ users = SeedUsers
            /\ tokenBlacklist = auth.blacklist

C18_Witness ==
    /\ auth.fn = "authorize"
    /\ auth.allowedRoles = {}
    /\ auth.given.role = "guest"
    /\ auth.next

\* C19: over the user routes, a step that changes the store is a request
\* answered 200 or 201 whose principal has role admin or manager, and a step
\* that removes a record is a request whose principal has role admin; so a
\* request with role user, or with no valid credentials, leaves the store as
\* it was.
C19_OnlyPrivilegedRolesWrite ==
    [][ users' # users =>
            /\ ops' # ops
            /\ http'.status \in {200, 201}
            /\ http'.user.role \in {"admin", "manager"}
            /\ (\E id \in StoredIds(users) : id \notin StoredIds(users')) =>
                   http'.user.role = "admin"
      ]_vars

C19_Witness ==
    /\ http.route = "PUT /users/:id"
    /\ http.user.role = "manager"
    /\ http.status = 200
    /\ users # http.before

\* The entries of the credential registry a login body matches
MatchingAccounts(body) ==
    {u \in mockUsers : u.email = body.email /\ u.password = body.password}

\* C20: login answers 400 MISSING_CREDENTIALS when the email or the password
\* is missing, 401 INVALID_CREDENTIALS when the pair matches no entry of the
\* registry, and otherwise 200 with a token signed with the server's secret
\* whose id, email and role are the matching account's and which expires
\* ExpiresIn (24 hours) after the call; the store and the revoked tokens are
\* what they were in all three cases.
C20_LoginOutcomes ==
    auth.fn = "login" =>
        LET missing == auth.body.email = "" \/ auth.body.password = ""
            matches == MatchingAccounts(auth.body)
        IN  /\ missing =>
                   /\ auth.status = 400 /\ auth.code = "MISSING_CREDENTIALS"
                   /\ auth.issued = NoToken
            /\ (~missing /\ matches = {}) =>
                   /\ auth.status = 401 /\ auth.code = "INVALID_CREDENTIALS"
                   /\ auth.issued = NoToken
            /\ (~missing /\ matches # {}) =>
                   /\ auth.status = 200
                   /\ \E u \in matches :
                          /\ auth.issued.id = u.id
                          /\ auth.issued.email = u.email
                          /\ auth.issued.role = u.role
                          /\ auth.user = [id |-> u.id, name |-> u.name,
                                          email |-> u.email, role |-> u.role]
                   /\ auth.issued.exp = auth.at + ExpiresIn
                   /\ JwtVerify(auth.issued, auth.at) = "ok"
                   /\ JwtVerify(auth.issued, auth.at + ExpiresIn) = "TokenExpiredError"
                   /\ authenticate(Bearer(auth.issued), auth.at).next
            /\ users = SeedUsers
            /\ tokenBlacklist = auth.blacklist

C20_Witness ==
    /\ auth.fn = "login"
    /\ auth.status = 200
    /\ auth.issued.role = "manager"
    /\ auth.blacklist # {}

\* The token validateToken takes from a request without a shared key: the one
\* after "Bearer " when the Authorization header has that prefix, the
\* x-access-token header otherwise
PresentedToken(cred) ==
    IF cred.authKind \in {"bearer", "bearer-empty"} THEN cred.token ELSE cred.accessToken

HasPresentedToken(cred) ==
    \/ cred.authKind = "bearer"
    \/ cred.authKind \notin {"bearer", "bearer-empty"} /\ cred.hasAccessToken

\* The code of the earliest check a token fails at clock reading t, in the order
\* absent, malformed, revoked, signature, claims, subject, expiry; "" when it
\* fails none
FirstFailingCheck(cred, t, revoked) ==
    LET token == PresentedToken(cred)
    IN  IF ~HasPresentedToken(cred) THEN "TOKEN_REQUIRED"
        ELSE IF token.parts # 3 THEN "INVALID_TOKEN_FORMAT"
        ELSE IF token \in revoked THEN "TOKEN_REVOKED"
        ELSE IF token.secret # "JWT_SECRET" THEN "INVALID_TOKEN_SIGNATURE"
        ELSE IF token.id = "" \/ token.email = "" \/ token.role = ""
        THEN "INVALID_TOKEN_PAYLOAD"
        ELSE IF ~\E u \in validUsers : u.id = token.id /\ u.email = token.email
        THEN "USER_NOT_FOUND"
        ELSE IF token.exp <= t THEN "TOKEN_EXPIRED"
        ELSE ""

\* C21: for a request with no shared key, validateToken answers with the code
\* of the first check the token fails in the order absent, malformed, revoked,
\* bad signature, incomplete claims, unknown subject, expired, and passes the
\* request on when it fails none.  jwt.verify raises the expiry together with
\* the signature, before the claims and the subject are looked at, so a signed
\* token that is expired and names an unknown subject gets TOKEN_EXPIRED.
C21_FirstFailingCheckReported ==
    (auth.fn = "validateToken" /\ auth.cred.apiKey = "") =>
        LET code == FirstFailingCheck(auth.cred, auth.at, auth.blacklist)
        IN  /\ auth.code = code
            /\ auth.next = (code = "")

\* The roles the router names in the authorize(...) of a route
AllowedRoles(route) ==
    IF route \in {"POST /users", "PUT /users/:id", "PATCH /users/:id/toggle-status"}
    THEN {"admin", "manager"}
    ELSE IF route = "DELETE /users/:id" THEN {"admin"}
    ELSE {"admin", "manager", "user"}

\* C22: on the user routes a request reaches UserService (the store is read
\* or written) only after authenticate and then the route's authorize have
\* passed it on, and a POST /users or PUT /users/:id writes the store only
\* when validateCreateUser, respectively validateUpdateUser, accepts its
\* payload.  The router mounts neither validation middleware, and updateUser
\* checks nothing, so a PUT with age 200 is written.
C22_StagesInOrder ==
    [][ ops' # ops =>
            /\ (users' # users \/ last' # last) =>
                   LET a == authenticate(http'.cred, http'.at)
                   IN  /\ a.next
                       /\ authorize(AllowedRoles(http'.route), a.user).next
                       /\ http'.user = a.user
            /\ (users' # users /\ http'.route = "POST /users") =>
                   validateCreateUser(last'.body).next
            /\ (users' # users /\ http'.route = "PUT /users/:id") =>
                   validateUpdateUser(last'.body).next
      ]_vars

\* The part of C22 the router does keep: UserService is reached only after
\* authenticate and the route's authorize have passed the request on
C22_GuardedBeforeStore ==
    [][ (ops' # ops /\ (users' # users \/ last' # last)) =>
            LET a == authenticate(http'.cred, http'.at)
            IN  /\ a.next
                /\ authorize(AllowedRoles(http'.route), a.user).next
      ]_vars

\* Two createUser calls in flight together whose payloads pass createUser's
\* validation and carry the same email up to letter case
RivalCreates(i, j) ==
    /\ i # j
    /\ calls[i].op = "createUser" /\ calls[j].op = "createUser"
    /\ CreateValidationError(calls[i].body) = "none"
    /\ CreateValidationError(calls[j].body) = "none"
    /\ ToLowerCase(calls[i].body.email) = ToLowerCase(calls[j].body.email)

\* C23: of two createUser calls in flight together with valid payloads and the
\* same email up to case, at most one returns and the other throws the 409
\* conflict.  Each call's lookup and push do run as one step (createUser has
\* no await), but the lookup compares the address as sent with the stored,
\* trimmed ones, so two calls with " new@x.io" both return.
C23_OneCreateWins ==
    \A i \in DOMAIN calls : \A j \in DOMAIN calls :
        RivalCreates(i, j) =>
            /\ ~(calls[i].status = 0 /\ calls[j].status = 0)
            /\ calls[i].status = 0 => calls[j].status = 409 /\ calls[j].code = "CONFLICT"

\* What does hold of such calls: when the address has no white space around
\* it, one returns and the other throws the conflict, or both throw it
C23_OneTrimmedCreateWins ==
    \A i \in DOMAIN calls : \A j \in DOMAIN calls :
        (RivalCreates(i, j) /\ Trim(calls[i].body.email) = calls[i].body.email
                           /\ Trim(calls[j].body.email) = calls[j].body.email) =>
            /\ ~(calls[i].status = 0 /\ calls[j].status = 0)
            /\ calls[i].status = 0 => calls[j].status = 409 /\ calls[j].code = "CONFLICT"

\* Two toggleUserStatus calls of one user in flight together, both returned,
\* and no other call made
TwoTogglesSettled ==
    /\ Len(calls) = 2
    /\ \A r \in DOMAIN calls :
           /\ calls[r].op = "toggleUserStatus" /\ calls[r].pc = "settled"
           /\ calls[r].status = 0
    /\ calls[1].id = calls[2].id

\* C24: writes to the store exclude one another; two toggleUserStatus calls
\* of one user in flight together leave isActive as it was before them, and
\* the value a toggle writes is the negation of the flag the record has when
\* it is written.  toggleUserStatus awaits between its read and its write, so
\* two calls begun together both read the old flag and both write its
\* negation.
C24_TogglesExcludeOneAnother ==
    /\ TwoTogglesSettled =>
           users[Position(users, calls[1].id)].isActive
               = SeedUsers[Position(SeedUsers, calls[1].id)].isActive
    /\ \A r \in DOMAIN calls :
           calls[r].pc = "awaiting" =>
               \/ calls[r].id \notin StoredIds(users)
               \/ users[Position(users, calls[r].id)].isActive = calls[r].read[1].isActive

\* A stored user satisfies every constraint the filters provide
SatisfiesFilters(u, f) ==
    /\ f.activeOnly => u.isActive
    /\ f.hasRole => u.role = f.role
    /\ f.hasMinAge => ~f.minAge.nan /\ u.age >= f.minAge.val
    /\ f.hasMaxAge => ~f.maxAge.nan /\ u.age <= f.maxAge.val
    /\ f.hasSearch =>
           \E field \in {ToLowerCase(u.name), ToLowerCase(u.email)} :
               Includes(field, ToLowerCase(f.search))

\* s is t with some entries left out and the others in t's order
RECURSIVE IsSubsequence(_, _)
IsSubsequence(s, t) ==
    IF s = << >> THEN TRUE
    ELSE IF t = << >> THEN FALSE
    ELSE IF s[1] = t[1] THEN IsSubsequence(Tail(s), Tail(t))
    ELSE IsSubsequence(s, Tail(t))

\* C25: getAllUsers(filters) returns exactly the stored users that satisfy
\* every constraint the filters provide, each once and in the order of the
\* store, and leaves the store as it was; with no constraint provided it
\* returns the whole store.
C25_ListIsFilteredStore ==
    last.op = "getAllUsers" =>
        LET result == last.result
            stored == last.before
        IN  /\ users = stored
            /\ IsSubsequence(result, stored)
            /\ \A i \in 1..Len(stored) :
                   SatisfiesFilters(stored[i], last.filters)
                       <=> \E k \in 1..Len(result) : result[k] = stored[i]
            /\ last.filters = NoFilters => result = stored

C25_Witness ==
    /\ last.op = "getAllUsers"
    /\ last.filters.hasRole /\ last.filters.hasSearch
    /\ last.before # SeedUsers
    /\ Len(last.result) > 1
    /\ Len(last.result) < Len(last.before)
    /\ \E k \in 1..Len(last.result) :
           ~Includes(ToLowerCase(last.result[k].name), ToLowerCase(last.filters.search))

\* C26: getUserById, updateUser, deleteUser and toggleUserStatus called with
\* an id no stored user has throw NotFound (404) and leave the store as it
\* was; deleteUser with the id of a stored user returns, and the store is then
\* the one before with that one record taken out and the others in place.
C26_MissingIdIsNotFound ==
    last.op \in {"getUserById", "updateUser", "deleteUser", "toggleUserStatus"} =>
        /\ last.id \notin StoredIds(last.before) =>
               /\ last.status = 404 /\ last.code = "NOT_FOUND"
               /\ users = last.before
        /\ last.id \in StoredIds(last.before) => last.status = 0
        /\ (last.op = "deleteUser" /\ last.id \in StoredIds(last.before)) =>
               /\ Len(users) = Len(last.before) - 1
               /\ users = SelectSeq(last.before, LAMBDA u : u.id # last.id)
               /\ IsSubsequence(users, last.before)

C26_Witness ==
    /\ last.op = "deleteUser"
    /\ last.id \in last.held \ StoredIds(last.before)
    /\ last.status = 404
    /\ users = last.before

\* The create rules: a name of trimmed length at least 2, an email of the
\* shape local@domain.tld, an age from 0 to 150
MeetsCreateRules(body) ==
    /\ body.hasName /\ Len(Trim(body.name)) >= 2
    /\ body.hasEmail /\ EmailPattern(body.email)
    /\ body.hasAge /\ body.age >= 0 /\ body.age <= 150

\* C27: validateCreateUser passes a payload on exactly when it meets the
\* create rules, the ages 0 and 150 included, and exactly when createUser's
\* own checks accept it.  validateCreateUser tests !age, which is true of 0,
\* and tests the email as sent where createUser tests it trimmed.
C27_ValidateCreateAcceptsRules ==
    validated.fn = "validateCreateUser" =>
        /\ validated.next <=> MeetsCreateRules(validated.body)
        /\ validated.next <=> CreateValidationError(validated.body) = "none"

\* C28: authenticate, validateToken, authorize and requireRole each either
\* call next() once and send nothing, or send one response and do not call
\* next(); authenticate and validateToken leave a principal on the request
\* exactly when they call next(), and authorize and requireRole leave the
\* request's principal as it was.
C28_NextOrRejectOnce ==
    auth.fn \in {"authenticate", "validateToken", "authorize", "requireRole"} =>
        /\ auth.nexts + auth.sends = 1
        /\ auth.next <=> auth.nexts = 1
        /\ auth.status # 0 <=> auth.sends = 1
        /\ auth.fn \in {"authenticate", "validateToken"} =>
               (auth.user # NoUser <=> auth.nexts = 1)
        /\ auth.fn \in {"authorize", "requireRole"} => auth.user = auth.given

C28_Witness ==
    /\ auth.fn = "authenticate"
    /\ auth.cred.apiKey = "" /\ auth.cred.authKind = "bearer"
    /\ auth.nexts = 1 /\ auth.sends = 0
    /\ auth.user.tokenType = "jwt"
    /\ auth.user.role = "manager"

====
